---- MODULE Spec2Model ----
(***************************************************************************)
(* The AMI430 magnet power supply driver                                   *)
(* (qcodes/instrument_drivers/american_magnetics/AMI430.py) as a state     *)
(* machine.  Every exchange with the instrument (one ask or one write) is  *)
(* one step of the caller that makes it, so that the instrument can change *)
(* between any two exchanges of a call.  Fields, ratings and currents are  *)
(* integers (one unit is one step of the instrument's resolution); sleeps  *)
(* are recorded in tenths of a second.                                     *)
(***************************************************************************)
EXTENDS Integers, Sequences, FiniteSets, TLC

\* ---------------------------------------------------------------- bounds
\* coil constants 1..MaxCoil are tried, each with the current ratings 1 and 2
MaxCoil == 1
CurrentRatings == {1, 2}
\* requested field values range over -MaxValue..MaxValue
MaxValue == 3
\* a wait loop sees its awaited state at most MaxPolls times in a row
MaxPolls == 2

\* the QDac's clock runs from 0 to MaxClock seconds
MaxClock == 2
\* max_status_age is set to 0..MaxAge seconds
MaxAge == 1

\* the largest ramp rate a caller asks for
MaxRate == 3

Rates == 0..MaxRate

Values == (0 - MaxValue)..MaxValue

\* the single serial client of section 5, and the two runs of the paired
\* specification
Serial == {1}
Callers == {1, 2}

VARIABLES
    coil_constant,      \* self._coil_constant
    current_rating,     \* self._current_rating
    persistent_switch,  \* self._persistent_switch
    hw,                 \* the instrument: quench, pers, heater, state, target
    link,               \* "live": answers come from hw; "replay": from script
    script,             \* replay only: the answers given so far, in order
    pc,                 \* per caller: the place in the code
    op,                 \* per caller: the public operation in progress
    value,              \* per caller: the argument of the operation
    result,             \* per caller: "none", "ok" or "OutOfRange"
    log,                \* per caller: the exchanges and sleeps of the call
    nq,                 \* per caller: the number of asks of the call
    polls,              \* per caller: iterations of the current wait loop
    rd,                 \* per caller: what _can_start_ramping has read
    ret,                \* per caller: the value _can_start_ramping returns
    current_ramp_limit, \* self._current_ramp_limit
    hw_rate,            \* the instrument: the ramp rate of segment 1
    rate_sent,          \* the rate of the last _set_ramp_rate, -1 before any
    got,                \* per caller: what _get_ramp_rate returned last
    qdac                \* the QDac driver object, its clock and instrument

vars == <<coil_constant, current_rating, persistent_switch, hw, link, script,
          pc, op, value, result, log, nq, polls, rd, ret,
          current_ramp_limit, hw_rate, rate_sent, got, qdac>>

\* the ramp rate's state and the QDac, which no ramp or heater step touches
aside == <<current_ramp_limit, hw_rate, rate_sent, got, qdac>>

config == <<coil_constant, current_rating, persistent_switch, link>>

\* ------------------------------------------------------------ the driver

\* line 22 with + for *
_field_rating_sum == coil_constant + current_rating

\* line 22: self._field_rating = coil_constant * current_rating
_field_rating == coil_constant * current_rating

\* qcodes.utils.validators.Numbers(min_value, max_value).validate(v)
Numbers(min_value, max_value, v) == min_value <= v /\ v <= max_value

\* line 29: vals=Numbers(-self._field_rating, self._field_rating)
field_vals(v) == Numbers(0 - _field_rating, _field_rating, v)

\* line 33: args=[Numbers(-self._field_rating, self._field_rating)]
ramp_to_args(v) == Numbers(0 - _field_rating, _field_rating, v)

\* lines 65-76: the val_mapping of ramping_state, read from the instrument's
\* code to the driver's name
ramping_state_name(code) ==
    CASE code = 1 -> "ramping"
      [] code = 2 -> "holding"
      [] code = 3 -> "paused"
      [] code = 4 -> "manual up"
      [] code = 5 -> "manual down"
      [] code = 6 -> "zeroing current"
      [] code = 7 -> "quench detected"
      [] code = 8 -> "at zero current"
      [] code = 9 -> "heating switch"
      [] code = 10 -> "cooling switch"
      [] OTHER -> "unknown"

\* lines 50, 54, 58: val_mapping={False: '0', True: '1'}, read
flag_value(reply) == reply = 1

\* one entry of a call's log
Io(cmd, arg) == [cmd |-> cmd, arg |-> arg]

NoRead == [q |-> 0 - 1, p |-> 0 - 1, s |-> 0, h |-> 0 - 1]

\* ------------------------------------------------------ the instrument link

IsQuery(cmd) == cmd \in {"QU?", "PERS?", "STATE?", "PS?"}

\* section 6: what the instrument answers to a query
HwAnswer(cmd) ==
    CASE cmd = "QU?" -> hw.quench
      [] cmd = "PERS?" -> hw.pers
      [] cmd = "PS?" -> hw.heater
      [] cmd = "STATE?" -> hw.state
      [] OTHER -> 0

\* section 6: what a command does to the instrument
HwApply(cmd, arg) ==
    CASE cmd = "CONF:FIELD:TARG" -> [hw EXCEPT !.target = arg]
      [] cmd = "PS" -> [hw EXCEPT !.heater = arg]
      [] cmd = "RAMP" -> [hw EXCEPT !.state = 1]
      [] cmd = "PAUSE" -> [hw EXCEPT !.state = 3]
      [] cmd = "ZERO" -> [hw EXCEPT !.state = 6]
      [] cmd = "QU" -> [hw EXCEPT !.quench = arg]
      [] OTHER -> hw

\* the ramping states a replayed instrument answers with: ramping, holding,
\* paused, quench detected, heating switch
ReplayStates == {1, 2, 3, 7, 9}

\* VisaInstrument.ask / write: caller c sends cmd and, for a query, gets r
Link(c, cmd, arg, r) ==
    IF link = "live"
    THEN /\ r = HwAnswer(cmd)
         /\ hw' = HwApply(cmd, arg)
         /\ nq' = [nq EXCEPT ![c] = @ + (IF IsQuery(cmd) THEN 1 ELSE 0)]
         /\ UNCHANGED script
    ELSE /\ UNCHANGED hw
         /\ IF ~IsQuery(cmd)
            THEN r = 0 /\ UNCHANGED <<script, nq>>
            ELSE /\ nq' = [nq EXCEPT ![c] = @ + 1]
                 /\ IF nq[c] < Len(script)
                    THEN r = script[nq[c] + 1] /\ UNCHANGED script
                    ELSE /\ r \in (IF cmd = "STATE?" THEN ReplayStates ELSE 0..1)
                         /\ script' = Append(script, r)

Replies == 0..10

\* the call of c ends without an exception
Return(c) ==
    /\ pc' = [pc EXCEPT ![c] = "idle"]
    /\ result' = [result EXCEPT ![c] = "ok"]

Goto(c, label) ==
    /\ pc' = [pc EXCEPT ![c] = label]
    /\ UNCHANGED result

Logged(c, entries) == log' = [log EXCEPT ![c] = @ \o entries]

\* a call starts: its log, counters and readings are fresh
Begin(c, name, v) ==
    /\ op' = [op EXCEPT ![c] = name]
    /\ value' = [value EXCEPT ![c] = v]
    /\ log' = [log EXCEPT ![c] = <<>>]
    /\ nq' = [nq EXCEPT ![c] = 0]
    /\ polls' = [polls EXCEPT ![c] = 0]
    /\ rd' = [rd EXCEPT ![c] = NoRead]
    /\ ret' = [ret EXCEPT ![c] = FALSE]
    /\ UNCHANGED <<config, hw, script, aside>>

\* lines 24-29: field.set(v): validate against vals, then _set_field(v)
field_set(c) ==
    /\ pc[c] = "idle"
    /\ \E v \in Values :
          /\ Begin(c, "_set_field", v)
          /\ IF field_vals(v)
             THEN /\ pc' = [pc EXCEPT ![c] = "can_qu"]
                  /\ result' = [result EXCEPT ![c] = "none"]
             ELSE /\ pc' = pc
                  /\ result' = [result EXCEPT ![c] = "OutOfRange"]

\* lines 31-33: ramp_to(v): validate against args, then _ramp_to(v)
ramp_to(c) ==
    /\ pc[c] = "idle"
    /\ \E v \in Values :
          /\ Begin(c, "_ramp_to", v)
          /\ IF ramp_to_args(v)
             THEN /\ pc' = [pc EXCEPT ![c] = "can_qu"]
                  /\ result' = [result EXCEPT ![c] = "none"]
             ELSE /\ pc' = pc
                  /\ result' = [result EXCEPT ![c] = "OutOfRange"]

\* lines 46-50: persistent_switch_heater_enabled.set(b), a parameter that
\* exists only with a persistent switch
persistent_switch_heater_enabled_set(c) ==
    /\ pc[c] = "idle"
    /\ persistent_switch
    /\ \E b \in 0..1 :
          /\ Begin(c, "_set_persistent_switch_heater", b)
          /\ pc' = [pc EXCEPT ![c] = "ps_write"]
          /\ result' = [result EXCEPT ![c] = "none"]

\* what a step inside a call leaves alone
\* lines 60-61, 80-84: a function with a fixed call_cmd: one write, no
\* check before it
Function(c, name, cmd, arg) ==
    /\ op' = [op EXCEPT ![c] = name]
    /\ value' = [value EXCEPT ![c] = 0]
    /\ link = "live"
    /\ hw' = HwApply(cmd, arg)
    /\ log' = [log EXCEPT ![c] = <<Io(cmd, arg)>>]
    /\ nq' = [nq EXCEPT ![c] = 0]
    /\ polls' = [polls EXCEPT ![c] = 0]
    /\ rd' = [rd EXCEPT ![c] = NoRead]
    /\ ret' = [ret EXCEPT ![c] = FALSE]
    /\ Return(c)
    /\ UNCHANGED <<config, script, aside>>

\* line 60
reset_quench(c) ==
    /\ pc[c] = "idle"
    /\ Function(c, "reset_quench", "QU", 0)
\* line 61
set_quenched(c) ==
    /\ pc[c] = "idle"
    /\ Function(c, "set_quenched", "QU", 1)
\* line 80
ramp(c) ==
    /\ pc[c] = "idle"
    /\ Function(c, "ramp", "RAMP", 0)
\* line 81
pause(c) ==
    /\ pc[c] = "idle"
    /\ Function(c, "pause", "PAUSE", 0)
\* line 82
zero(c) ==
    /\ pc[c] = "idle"
    /\ Function(c, "zero", "ZERO", 0)
\* line 84
reset(c) ==
    /\ pc[c] = "idle"
    /\ Function(c, "reset", "*RST", 0)

Inside == UNCHANGED <<config, op, value, aside>>

\* lines 96-97 with the answer ignored
can_is_quenched_unchecked(c) ==
    /\ pc[c] = "can_qu"
    /\ \E r \in Replies :
          /\ Link(c, "QU?", 0, r)
          /\ Logged(c, <<Io("QU?", 0)>>)
          /\ rd' = [rd EXCEPT ![c].q = r]
          /\ UNCHANGED ret
          /\ Goto(c, IF persistent_switch THEN "can_pers" ELSE "can_state")
    /\ Inside /\ UNCHANGED polls

\* lines 96-97: if self.is_quenched(): return False
can_is_quenched(c) ==
    /\ pc[c] = "can_qu"
    /\ \E r \in Replies :
          /\ Link(c, "QU?", 0, r)
          /\ Logged(c, <<Io("QU?", 0)>>)
          /\ rd' = [rd EXCEPT ![c].q = r]
          /\ IF flag_value(r)
             THEN /\ ret' = [ret EXCEPT ![c] = FALSE]
                  /\ Goto(c, "can_ret")
             ELSE /\ UNCHANGED ret
                  /\ Goto(c, IF persistent_switch THEN "can_pers" ELSE "can_state")
    /\ Inside /\ UNCHANGED polls

\* lines 99-100 with the answer ignored
can_in_persistent_mode_unchecked(c) ==
    /\ pc[c] = "can_pers"
    /\ \E r \in Replies :
          /\ Link(c, "PERS?", 0, r)
          /\ Logged(c, <<Io("PERS?", 0)>>)
          /\ rd' = [rd EXCEPT ![c].p = r]
          /\ UNCHANGED ret
          /\ Goto(c, "can_state")
    /\ Inside /\ UNCHANGED polls

\* lines 99-100: if self._persistent_switch and self.in_persistent_mode()
can_in_persistent_mode(c) ==
    /\ pc[c] = "can_pers"
    /\ \E r \in Replies :
          /\ Link(c, "PERS?", 0, r)
          /\ Logged(c, <<Io("PERS?", 0)>>)
          /\ rd' = [rd EXCEPT ![c].p = r]
          /\ IF flag_value(r)
             THEN /\ ret' = [ret EXCEPT ![c] = FALSE]
                  /\ Goto(c, "can_ret")
             ELSE /\ UNCHANGED ret
                  /\ Goto(c, "can_state")
    /\ Inside /\ UNCHANGED polls

\* lines 102-114 with 'paused' missing from the list of line 111
can_state_rule_no_paused(state) ==
    IF state = "ramping"
    THEN IF ~persistent_switch THEN "true" ELSE "ask"
    ELSE IF state \in {"holding", "at zero current"}
         THEN "true"
         ELSE "false"

\* lines 102-114 with the heater check of lines 105-110 missing
can_state_rule_no_heater(state) ==
    IF state \in {"ramping", "holding", "paused", "at zero current"}
    THEN "true"
    ELSE "false"

\* lines 102-114 without the heater query: what the ramping state decides.
\* "ask" stands for the query of line 107.
can_state_rule(state) ==
    IF state = "ramping"
    THEN IF ~persistent_switch THEN "true" ELSE "ask"
    ELSE IF state \in {"holding", "paused", "at zero current"}
         THEN "true"
         ELSE "false"

\* lines 102-114: state = self.ramping_state() and the branches on it
can_ramping_state(c) ==
    /\ pc[c] = "can_state"
    /\ \E r \in Replies :
          /\ Link(c, "STATE?", 0, r)
          /\ Logged(c, <<Io("STATE?", 0)>>)
          /\ rd' = [rd EXCEPT ![c].s = r]
          /\ LET rule == can_state_rule(ramping_state_name(r))
             IN IF rule = "ask"
                THEN UNCHANGED ret /\ Goto(c, "can_ps")
                ELSE /\ ret' = [ret EXCEPT ![c] = (rule = "true")]
                     /\ Goto(c, "can_ret")
    /\ Inside /\ UNCHANGED polls

\* lines 107-110: elif self.persistent_switch_heater_enabled()
can_heater_enabled(c) ==
    /\ pc[c] = "can_ps"
    /\ \E r \in Replies :
          /\ Link(c, "PS?", 0, r)
          /\ Logged(c, <<Io("PS?", 0)>>)
          /\ rd' = [rd EXCEPT ![c].h = r]
          /\ ret' = [ret EXCEPT ![c] = flag_value(r)]
          /\ Goto(c, "can_ret")
    /\ Inside /\ UNCHANGED polls

\* the frame of _can_start_ramping is left: its readings are gone
Left(c) ==
    /\ rd' = [rd EXCEPT ![c] = NoRead]
    /\ ret' = [ret EXCEPT ![c] = FALSE]
    /\ UNCHANGED <<hw, script, nq, log, polls>>

\* line 120 with the condition dropped
set_field_if_always(c) ==
    /\ pc[c] = "can_ret" /\ op[c] = "_set_field"
    /\ Goto(c, "sf_pause")
    /\ Left(c) /\ Inside

\* line 120: if self._can_start_ramping():
set_field_if(c) ==
    /\ pc[c] = "can_ret" /\ op[c] = "_set_field"
    /\ IF ret[c] THEN Goto(c, "sf_pause") ELSE Return(c)
    /\ Left(c) /\ Inside

\* line 121: self.pause()
set_field_pause(c) ==
    /\ pc[c] = "sf_pause"
    /\ Link(c, "PAUSE", 0, 0)
    /\ Logged(c, <<Io("PAUSE", 0)>>)
    /\ Goto(c, "sf_targ")
    /\ Inside /\ UNCHANGED <<polls, rd, ret>>

\* line 124: self.write('CONF:FIELD:TARG {}'.format(value))
set_field_target(c) ==
    /\ pc[c] = "sf_targ"
    /\ Link(c, "CONF:FIELD:TARG", value[c], 0)
    /\ Logged(c, <<Io("CONF:FIELD:TARG", value[c])>>)
    /\ Goto(c, IF persistent_switch THEN "sf_ps" ELSE "sf_ramp")
    /\ Inside /\ UNCHANGED <<polls, rd, ret>>

\* lines 127-129 without the 'not'
set_field_heater_inverted(c) ==
    /\ pc[c] = "sf_ps"
    /\ \E r \in Replies :
          /\ Link(c, "PS?", 0, r)
          /\ Logged(c, <<Io("PS?", 0)>>)
          /\ Goto(c, IF flag_value(r) THEN "ps_write" ELSE "sf_ramp")
    /\ Inside /\ UNCHANGED <<polls, rd, ret>>

\* lines 127-129: if not self.persistent_switch_heater_enabled(): set it True
set_field_heater(c) ==
    /\ pc[c] = "sf_ps"
    /\ \E r \in Replies :
          /\ Link(c, "PS?", 0, r)
          /\ Logged(c, <<Io("PS?", 0)>>)
          /\ Goto(c, IF ~flag_value(r) THEN "ps_write" ELSE "sf_ramp")
    /\ Inside /\ UNCHANGED <<polls, rd, ret>>

\* lines 131-133: self.ramp(); time.sleep(0.5)
set_field_ramp(c) ==
    /\ pc[c] = "sf_ramp"
    /\ Link(c, "RAMP", 0, 0)
    /\ Logged(c, <<Io("RAMP", 0), Io("sleep", 5)>>)
    /\ polls' = [polls EXCEPT ![c] = 0]
    /\ Goto(c, "sf_wait")
    /\ Inside /\ UNCHANGED <<rd, ret>>

\* lines 136-139: while self.ramping_state() == 'ramping': time.sleep(0.3);
\* then time.sleep(2.0)
set_field_wait(c) ==
    /\ pc[c] = "sf_wait"
    /\ \E r \in Replies :
          /\ Link(c, "STATE?", 0, r)
          /\ IF ramping_state_name(r) = "ramping"
             THEN /\ polls[c] < MaxPolls
                  /\ polls' = [polls EXCEPT ![c] = @ + 1]
                  /\ Logged(c, <<Io("STATE?", 0), Io("sleep", 3)>>)
                  /\ Goto(c, "sf_wait")
             ELSE /\ UNCHANGED polls
                  /\ Logged(c, <<Io("STATE?", 0), Io("sleep", 20)>>)
                  /\ Goto(c, "sf_settle")
    /\ Inside /\ UNCHANGED <<rd, ret>>

\* line 142 comparing with 'paused'
set_field_settle_paused(c) ==
    /\ pc[c] = "sf_settle"
    /\ \E r \in Replies :
          /\ Link(c, "STATE?", 0, r)
          /\ Logged(c, <<Io("STATE?", 0)>>)
          /\ IF ramping_state_name(r) = "paused"
             THEN Goto(c, "sf_hold")
             ELSE Return(c)
    /\ Inside /\ UNCHANGED <<polls, rd, ret>>

\* line 142 with the pause of line 143 outside the if
set_field_settle_always(c) ==
    /\ pc[c] = "sf_settle"
    /\ \E r \in Replies :
          /\ Link(c, "STATE?", 0, r)
          /\ Logged(c, <<Io("STATE?", 0)>>)
          /\ Goto(c, "sf_hold")
    /\ Inside /\ UNCHANGED <<polls, rd, ret>>

\* line 142: if self.ramping_state() == 'holding': ... else: pass
set_field_settle(c) ==
    /\ pc[c] = "sf_settle"
    /\ \E r \in Replies :
          /\ Link(c, "STATE?", 0, r)
          /\ Logged(c, <<Io("STATE?", 0)>>)
          /\ IF ramping_state_name(r) = "holding"
             THEN Goto(c, "sf_hold")
             ELSE Return(c)
    /\ Inside /\ UNCHANGED <<polls, rd, ret>>

\* line 143: self.pause()
set_field_hold(c) ==
    /\ pc[c] = "sf_hold"
    /\ Link(c, "PAUSE", 0, 0)
    /\ Logged(c, <<Io("PAUSE", 0)>>)
    /\ Return(c)
    /\ Inside /\ UNCHANGED <<polls, rd, ret>>

\* line 149: if self._can_start_ramping():
ramp_to_if(c) ==
    /\ pc[c] = "can_ret" /\ op[c] = "_ramp_to"
    /\ IF ret[c] THEN Goto(c, "rt_pause") ELSE Return(c)
    /\ Left(c) /\ Inside

\* line 150 missing
ramp_to_pause_missing(c) ==
    /\ pc[c] = "rt_pause"
    /\ Goto(c, "rt_targ")
    /\ Inside /\ UNCHANGED <<hw, script, nq, log, polls, rd, ret>>

\* line 150: self.pause()
ramp_to_pause(c) ==
    /\ pc[c] = "rt_pause"
    /\ Link(c, "PAUSE", 0, 0)
    /\ Logged(c, <<Io("PAUSE", 0)>>)
    /\ Goto(c, "rt_targ")
    /\ Inside /\ UNCHANGED <<polls, rd, ret>>

\* line 153: self.write('CONF:FIELD:TARG {}'.format(value))
ramp_to_target(c) ==
    /\ pc[c] = "rt_targ"
    /\ Link(c, "CONF:FIELD:TARG", value[c], 0)
    /\ Logged(c, <<Io("CONF:FIELD:TARG", value[c])>>)
    /\ Goto(c, IF persistent_switch THEN "rt_ps" ELSE "rt_ramp")
    /\ Inside /\ UNCHANGED <<polls, rd, ret>>

\* lines 156-158: if not self.persistent_switch_heater_enabled(): set it True
ramp_to_heater(c) ==
    /\ pc[c] = "rt_ps"
    /\ \E r \in Replies :
          /\ Link(c, "PS?", 0, r)
          /\ Logged(c, <<Io("PS?", 0)>>)
          /\ Goto(c, IF ~flag_value(r) THEN "ps_write" ELSE "rt_ramp")
    /\ Inside /\ UNCHANGED <<polls, rd, ret>>

\* line 160: self.ramp()
ramp_to_ramp(c) ==
    /\ pc[c] = "rt_ramp"
    /\ Link(c, "RAMP", 0, 0)
    /\ Logged(c, <<Io("RAMP", 0)>>)
    /\ Return(c)
    /\ Inside /\ UNCHANGED <<polls, rd, ret>>

\* line 50: val_mapping={False: '0', True: '1'}: the parameter hands the
\* mapped string to its set_cmd
heater_val_mapping(b) == IF b = 1 THEN "1" ELSE "0"

\* line 179: 'if value:' on a string: true unless the string is empty
truth(s) == s # ""

\* the test of line 179 on the value _set_persistent_switch_heater was called
\* with: the parameter's mapping of True from lines 129 and 158, of the
\* caller's own value from the parameter
heater_value(c) ==
    IF op[c] = "_set_persistent_switch_heater"
    THEN truth(heater_val_mapping(value[c]))
    ELSE truth(heater_val_mapping(1))

\* lines 179-182 with a guard: nothing is written when the heater is enabled
set_persistent_switch_heater_write_guarded(c) ==
    /\ pc[c] = "ps_write"
    /\ IF heater_value(c) /\ hw.heater = 1
       THEN /\ IF op[c] = "_set_field"
               THEN Goto(c, "sf_ramp")
               ELSE IF op[c] = "_ramp_to" THEN Goto(c, "rt_ramp") ELSE Return(c)
            /\ UNCHANGED <<hw, script, nq, log, polls>>
       ELSE /\ LET arg == IF heater_value(c) THEN 1 ELSE 0
               IN /\ Link(c, "PS", arg, 0)
                  /\ Logged(c, <<Io("PS", arg), Io("sleep", 5)>>)
            /\ polls' = [polls EXCEPT ![c] = 0]
            /\ Goto(c, "ps_wait")
    /\ Inside /\ UNCHANGED <<rd, ret>>

\* lines 179-182 and 187-190: self.write('PS 1') or ('PS 0'); time.sleep(0.5)
set_persistent_switch_heater_write(c) ==
    /\ pc[c] = "ps_write"
    /\ LET arg == IF heater_value(c) THEN 1 ELSE 0
       IN /\ Link(c, "PS", arg, 0)
          /\ Logged(c, <<Io("PS", arg), Io("sleep", 5)>>)
    /\ polls' = [polls EXCEPT ![c] = 0]
    /\ Goto(c, "ps_wait")
    /\ Inside /\ UNCHANGED <<rd, ret>>

\* where _set_persistent_switch_heater returns to
heater_return(c) ==
    IF op[c] = "_set_field"
    THEN Goto(c, "sf_ramp")
    ELSE IF op[c] = "_ramp_to" THEN Goto(c, "rt_ramp") ELSE Return(c)

\* lines 185-186 and 193-194 with if for while: one poll, one sleep
set_persistent_switch_heater_wait_once(c) ==
    /\ pc[c] = "ps_wait"
    /\ \E r \in Replies :
          /\ Link(c, "STATE?", 0, r)
          /\ UNCHANGED polls
          /\ IF ramping_state_name(r) =
                  (IF heater_value(c) THEN "heating switch" ELSE "cooling switch")
             THEN Logged(c, <<Io("STATE?", 0), Io("sleep", 3)>>)
             ELSE Logged(c, <<Io("STATE?", 0)>>)
          /\ heater_return(c)
    /\ Inside /\ UNCHANGED <<rd, ret>>

\* lines 185-186 and 193-194: while self.ramping_state() == 'heating switch'
\* (or 'cooling switch'): time.sleep(0.3)
set_persistent_switch_heater_wait(c) ==
    /\ pc[c] = "ps_wait"
    /\ \E r \in Replies :
          /\ Link(c, "STATE?", 0, r)
          /\ IF ramping_state_name(r) =
                  (IF heater_value(c) THEN "heating switch" ELSE "cooling switch")
             THEN /\ polls[c] < MaxPolls
                  /\ polls' = [polls EXCEPT ![c] = @ + 1]
                  /\ Logged(c, <<Io("STATE?", 0), Io("sleep", 3)>>)
                  /\ Goto(c, "ps_wait")
             ELSE /\ UNCHANGED polls
                  /\ Logged(c, <<Io("STATE?", 0)>>)
                  /\ heater_return(c)
    /\ Inside /\ UNCHANGED <<rd, ret>>

\* -------------------------------------------------------- the instrument

\* the instrument changes by itself or at its front panel: a quench sets or
\* is reset, the magnet enters or leaves persistent mode, the ramping state
\* moves
HwChange ==
    /\ link = "live"
    /\ \/ hw' = [hw EXCEPT !.quench = 1 - @]
       \/ hw' = [hw EXCEPT !.pers = 1 - @]
       \/ \E s \in 1..10 : s # hw.state /\ hw' = [hw EXCEPT !.state = s]
    /\ UNCHANGED <<config, script, pc, op, value, result, log, nq, polls, rd, ret,
                   aside>>

\* ------------------------------------------------------------- the QDac
\* (qcodes/instrument_drivers/qdev/qdac.py) The instrument's status is a
\* table with one entry per channel; voltages are integers, the voltage
\* range is 10 or 1, the current range 0 ('pA') or 1 ('nA').

\* qdac.py line 20
num_chans == 48
\* qdac.py line 29: the class attribute
max_status_age == 1

\* line 47
chan_range == 1..num_chans
\* line 141
valid_params == {"v", "vrange", "irange"}

\* the channels whose voltage the callers set: the first and the last
Chans == {1, num_chans}
\* the channels whose ranges the callers set
RangeChans == {1}

\* a channel nobody has set: 0 V, range 10 V, 'pA'
RestEntry == [v |-> 0, vrange |-> 10, irange |-> 0]

\* A table is kept as the entries of the channels in Chans; every other
\* channel is never set and has the entry of a channel at rest.
Entry(tbl, i) == IF i \in Chans THEN tbl[i] ELSE RestEntry

\* line 188: chans = [{} for i in self.chan_range], also standing for no table
NoStatus == [i \in Chans |-> [v |-> 0 - 1, vrange |-> 0 - 1, irange |-> 0 - 1]]
NoOut == [kind |-> "none", val |-> 0]

\* the status replies of the instrument: well formed, or failing the test
\* of line 174 (version line), 185 (header line), 194 (five fields to a
\* line), 195 (the channel is an integer), 196 (the voltage is a number),
\* 197 (a known voltage range text), 199 (the channel is at most 48) or
\* 200 (the channel is one still missing: not 0, not sent twice)
StatusReplies == {"ok", "version", "header", "fields", "chan_text", "v_text",
                  "range", "chan_high", "chan_again"}

\* lines 31-47: after __init__ neither _status nor _status_ts exists
\* (has = FALSE); max_status_age is the class attribute
QDacAtRest ==
    qdac = [pc |-> "idle", chan |-> 1, param |-> "v", out |-> NoOut,
            fn |-> "none", chans |-> NoStatus, asked |-> FALSE, reply |-> "none", has |-> FALSE,
            _status |-> NoStatus, _status_ts |-> 0, now |-> 0,
            max_status_age |-> max_status_age,
            table |-> [i \in Chans |-> RestEntry]]

\* everything of the magnet driver, which the QDac does not touch
magnet == <<config, hw, script, pc, op, value, result, log, nq, polls, rd, ret,
            current_ramp_limit, hw_rate, rate_sent, got>>

\* lines 138-144: read_state(chan, param) is called; its two argument checks
read_state_call ==
    /\ qdac.pc = "idle"
    /\ \E chan \in {0, 1, num_chans, num_chans + 1} :
       \E param \in valid_params \cup {"i"} :
          qdac' = [qdac EXCEPT
                      !.fn = "read_state", !.chan = chan, !.param = param,
                      !.chans = NoStatus,
                      !.asked = FALSE, !.reply = "none",
                      !.pc = IF chan \in chan_range /\ param \in valid_params
                             THEN "rs_age" ELSE "idle",
                      !.out = IF chan \in chan_range /\ param \in valid_params
                              THEN NoOut
                              ELSE [kind |-> "ValueError", val |-> 0]]
    /\ UNCHANGED magnet

\* lines 155-204: ask 'status' and read the table. A well-formed reply is
\* stored with the time of line 203; any other raises before line 202 and
\* stores nothing
got_status(q, reply) ==
    IF reply = "ok"
    THEN [q EXCEPT !.asked = TRUE, !.reply = reply, !.has = TRUE,
                   !._status = q.table, !._status_ts = q.now]
    ELSE [q EXCEPT !.asked = TRUE, !.reply = reply]

\* what the caller of _get_status gets: the value it asked for, or the
\* exception: ValueError at lines 179, 186, 194, 195, 196, KeyError at 197
\* and 200, IndexError at 199
status_out(q, reply, val) ==
    IF reply = "ok" THEN [kind |-> "value", val |-> val]
    ELSE IF reply \in {"range", "chan_again"} THEN [kind |-> "KeyError", val |-> 0]
    ELSE IF reply = "chan_high" THEN [kind |-> "IndexError", val |-> 0]
    ELSE [kind |-> "ValueError", val |-> 0]

\* lines 146-151: max_status_age falsy: get_status(); else the age of
\* self._status_ts is taken at the clock of line 147, an attribute that
\* exists only after a _get_status (lines 202-203): AttributeError before.
\* A young table answers at once; else the status is fetched, which takes
\* its time.
read_state ==
    /\ qdac.pc = "rs_age"
    /\ IF qdac.max_status_age # 0 /\ ~qdac.has
       THEN qdac' = [qdac EXCEPT
                        !.pc = "idle",
                        !.out = [kind |-> "AttributeError", val |-> 0]]
       ELSE IF qdac.max_status_age # 0
               /\ qdac.now - qdac._status_ts < qdac.max_status_age
       THEN qdac' = [qdac EXCEPT
                        !.pc = "idle",
                        !.chans = qdac._status,
                        !.out = [kind |-> "value",
                                 val |-> Entry(qdac._status,
                                               qdac.chan)[qdac.param]]]
       ELSE qdac' = [qdac EXCEPT !.pc = "gs_ask"]
    /\ UNCHANGED magnet

\* line 45: the function get_status, called by the user
get_status ==
    /\ qdac.pc = "idle"
    /\ qdac' = [qdac EXCEPT !.fn = "get_status", !.chans = NoStatus,
                            !.asked = FALSE, !.reply = "none", !.out = NoOut,
                            !.pc = "gs_ask"]
    /\ UNCHANGED magnet

\* lines 173-204, and line 153 for read_state: the status is asked and read,
\* stamped with the clock of line 203, which may have moved since the call
\* began, and returned (line 204): get_status hands the table to its
\* caller (out of kind "table", the table in chans), read_state takes its
\* answer from it
_get_status ==
    /\ qdac.pc = "gs_ask"
    /\ \E reply \in StatusReplies :
          qdac' = [got_status(qdac, reply) EXCEPT
                      !.pc = "idle",
                      !.chans = IF reply = "ok" THEN qdac.table ELSE NoStatus,
                      !.out = IF reply = "ok" /\ qdac.fn = "get_status"
                              THEN [kind |-> "table", val |-> 0]
                              ELSE status_out(qdac, reply,
                                      Entry(qdac.table, qdac.chan)[qdac.param])]
    /\ UNCHANGED magnet

\* lines 51-55: chan<i>.set(v): 'set i v' changes the instrument's output,
\* not the cached status
chan_set ==
    /\ qdac.pc = "idle"
    /\ \E i \in Chans : \E v \in 0..1 :
          v # qdac.table[i].v /\ qdac' = [qdac EXCEPT !.table[i].v = v]
    /\ UNCHANGED magnet

\* lines 57-59: vrange<i>.set(r), r a key of voltage_range_map: 'vol i 0'
\* for 10, 'vol i 1' for 1
vrange_set ==
    /\ qdac.pc = "idle"
    /\ \E i \in RangeChans : \E r \in {10, 1} :
          r # qdac.table[i].vrange
          /\ qdac' = [qdac EXCEPT !.table[i].vrange = r]
    /\ UNCHANGED magnet

\* lines 61-63: irange<i>.set(r), r a key of current_range_map: 'cur i 0'
\* for 'pA', 'cur i 1' for 'nA'
irange_set ==
    /\ qdac.pc = "idle"
    /\ \E i \in RangeChans : \E r \in 0..1 :
          r # qdac.table[i].irange
          /\ qdac' = [qdac EXCEPT !.table[i].irange = r]
    /\ UNCHANGED magnet

\* line 29: the user assigns max_status_age
max_status_age_set ==
    /\ qdac.pc = "idle"
    /\ \E a \in 0..MaxAge :
          a # qdac.max_status_age /\ qdac' = [qdac EXCEPT !.max_status_age = a]
    /\ UNCHANGED magnet

\* datetime.now() moves on
Tick ==
    /\ qdac.now < MaxClock
    /\ qdac' = [qdac EXCEPT !.now = @ + 1]
    /\ UNCHANGED magnet

\* ------------------------------------------------------- specifications

Configured ==
    /\ coil_constant \in 1..MaxCoil
    /\ current_rating \in CurrentRatings
    /\ persistent_switch \in BOOLEAN

\* the ramp rate is left at rest: nothing sent, nothing read
RateAtRest ==
    /\ current_ramp_limit = 1
    /\ hw_rate = 0
    /\ rate_sent = 0 - 1
    /\ got = [c \in Callers |-> 0 - 1]

Init ==
    /\ Configured
    /\ RateAtRest
    /\ QDacAtRest
    /\ link = "live"
    /\ script = <<>>
    /\ hw \in [quench : 0..1, pers : 0..1, heater : 0..1, state : 1..10,
               target : {0}]
    /\ pc = [c \in Callers |-> "idle"]
    /\ op = [c \in Callers |-> "none"]
    /\ value = [c \in Callers |-> 0]
    /\ result = [c \in Callers |-> "none"]
    /\ log = [c \in Callers |-> <<>>]
    /\ nq = [c \in Callers |-> 0]
    /\ polls = [c \in Callers |-> 0]
    /\ rd = [c \in Callers |-> NoRead]
    /\ ret = [c \in Callers |-> FALSE]

Call(c) ==
    \/ field_set(c)
    \/ ramp_to(c)
    \/ persistent_switch_heater_enabled_set(c)
    \/ reset_quench(c)
    \/ set_quenched(c)
    \/ ramp(c)
    \/ pause(c)
    \/ zero(c)
    \/ reset(c)

Body(c) ==
    \/ can_is_quenched(c)
    \/ can_in_persistent_mode(c)
    \/ can_ramping_state(c)
    \/ can_heater_enabled(c)
    \/ set_field_if(c)
    \/ set_field_pause(c)
    \/ set_field_target(c)
    \/ set_field_heater(c)
    \/ set_field_ramp(c)
    \/ set_field_wait(c)
    \/ set_field_settle(c)
    \/ set_field_hold(c)
    \/ ramp_to_if(c)
    \/ ramp_to_pause(c)
    \/ ramp_to_target(c)
    \/ ramp_to_heater(c)
    \/ ramp_to_ramp(c)
    \/ set_persistent_switch_heater_write(c)
    \/ set_persistent_switch_heater_wait(c)

Next ==
    \/ \E c \in Serial : Call(c) \/ Body(c)
    \/ HwChange

Spec == Init /\ [][Next]_vars

\* --------------------------------------------------- the paired runs

\* Two runs against the same instrument behaviour: caller 1 is inside
\* field.set(v), caller 2 inside ramp_to(v), both past validation with the
\* same v, and the n-th ask of either gets the same answer.
InitPair ==
    /\ Configured
    /\ RateAtRest
    /\ QDacAtRest
    /\ link = "replay"
    /\ script = <<>>
    /\ hw = [quench |-> 0, pers |-> 0, heater |-> 0, state |-> 2, target |-> 0]
    /\ pc = [c \in Callers |-> "can_qu"]
    /\ op = [c \in Callers |-> IF c = 1 THEN "_set_field" ELSE "_ramp_to"]
    /\ \E v \in Values :
          /\ field_vals(v) /\ ramp_to_args(v)
          /\ value = [c \in Callers |-> v]
    /\ result = [c \in Callers |-> "none"]
    /\ log = [c \in Callers |-> <<>>]
    /\ nq = [c \in Callers |-> 0]
    /\ polls = [c \in Callers |-> 0]
    /\ rd = [c \in Callers |-> NoRead]
    /\ ret = [c \in Callers |-> FALSE]

NextPair == \E c \in Callers : Body(c)

SpecPair == InitPair /\ [][NextPair]_vars

\* ------------------------------------------------------------ the claims

IsWrite(e) == e.cmd \in {"PAUSE", "CONF:FIELD:TARG", "PS", "RAMP", "ZERO", "QU",
                        "*RST"}
IsAct(e) == ~IsQuery(e.cmd)
IsPause(e) == e.cmd = "PAUSE"

\* the commands of a log, and its commands and sleeps
Writes(l) == SelectSeq(l, IsWrite)
Acts(l) == SelectSeq(l, IsAct)

Has(l, cmd) == \E i \in 1..Len(l) : l[i].cmd = cmd
First(l, cmd) ==
    CHOOSE i \in 1..Len(l) :
        l[i].cmd = cmd /\ \A j \in 1..(i - 1) : l[j].cmd # cmd
IsPrefix(s, t) == Len(s) <= Len(t) /\ SubSeq(t, 1, Len(s)) = s
UpToRamp(l) == IF Has(l, "RAMP") THEN SubSeq(l, 1, First(l, "RAMP")) ELSE l
AfterRamp(l) ==
    IF Has(l, "RAMP") THEN SubSeq(l, First(l, "RAMP") + 1, Len(l)) ELSE <<>>

RampOps == {"_set_field", "_ramp_to"}
Stepped(c) == pc'[c] # pc[c] \/ log'[c] # log[c]
AtReturn(c) == pc[c] = "can_ret"

\* C1: whenever _can_start_ramping has read the quench flag as set, it
\* returns False, whatever the switch, the persistent mode, the heater and the
\* ramping state are.
C1_QuenchedNeverStarts ==
    \A c \in Callers : (AtReturn(c) /\ rd[c].q = 1) => ~ret[c]

C1_Witness ==
    \E c \in Callers :
        /\ AtReturn(c) /\ rd[c].q = 1 /\ ~ret[c]
        /\ hw.state = 2 /\ hw.pers = 0 /\ hw.heater = 1

\* C2: with a persistent switch and the persistent-mode flag read as set,
\* _can_start_ramping returns False; without a persistent switch the
\* persistent-mode flag is never read, so it cannot influence the result.
C2_PersistentModeNeverStarts ==
    \A c \in Callers :
        AtReturn(c) =>
            /\ (persistent_switch /\ rd[c].p = 1) => ~ret[c]
            /\ ~persistent_switch => (rd[c].p = 0 - 1 /\ ~Has(log[c], "PERS?"))

C2_Witness ==
    \E c \in Callers :
        /\ AtReturn(c) /\ persistent_switch /\ rd[c].q = 0 /\ rd[c].p = 1
        /\ hw.state = 2

\* C3: a field target beyond coil_constant * current_rating in magnitude is
\* rejected by field.set and by ramp_to with an out-of-range error before
\* anything is sent to the instrument.
C3_OutOfRangeSendsNothing ==
    \A c \in Callers :
        (/\ op[c] \in RampOps
         /\ \/ value[c] > coil_constant * current_rating
            \/ 0 - value[c] > coil_constant * current_rating)
        => (pc[c] = "idle" /\ result[c] = "OutOfRange" /\ log[c] = <<>>)

C3_Witness ==
    \E c \in Callers :
        /\ op[c] = "_ramp_to" /\ result[c] = "OutOfRange"
        /\ 0 - value[c] > coil_constant * current_rating
        /\ log[c] = <<>>

\* C4: when _can_start_ramping returns False, the ramp operation returns
\* without an error having sent no command and slept not at all, and neither
\* that return nor the gate's queries change the instrument.
C4_BlockedIsNoOp ==
    [][\A c \in Callers :
          /\ (AtReturn(c) /\ ~ret[c] /\ Stepped(c))
             => /\ pc'[c] = "idle" /\ result'[c] = "ok"
                /\ Acts(log'[c]) = <<>>
                /\ hw' = hw
          /\ (pc[c] \in {"can_qu", "can_pers", "can_state", "can_ps"}
              /\ Stepped(c))
             => hw' = hw]_vars

C4_Witness ==
    \E c \in Callers :
        /\ op[c] = "_set_field" /\ pc[c] = "idle" /\ result[c] = "ok"
        /\ log[c] = <<Io("QU?", 0)>>
        /\ hw.quench = 1 /\ hw.target = 0

\* the order of one call's log: the first four commands, and what lies
\* between PS and RAMP
C5_Order ==
    \A c \in Callers :
        (op[c] \in RampOps /\ Has(log[c], "PS")) =>
            LET w == Writes(log[c])
                n == IF Len(w) < 4 THEN Len(w) ELSE 4
            IN /\ IsPrefix(SubSeq(w, 1, n),
                           <<Io("PAUSE", 0), Io("CONF:FIELD:TARG", value[c]),
                             Io("PS", 1), Io("RAMP", 0)>>)
               /\ Has(log[c], "RAMP") =>
                     LET i == First(log[c], "PS")
                         j == First(log[c], "RAMP")
                     IN /\ i + 2 < j
                        /\ log[c][i + 1] = Io("sleep", 5)
                        /\ log[c][j - 1] = Io("STATE?", 0)
                        /\ \A k \in (i + 1)..(j - 1) :
                              log[c][k].cmd \in {"sleep", "STATE?"}

\* C5: in a ramp request that enables the heater, the commands are PAUSE,
\* CONF:FIELD:TARG with the requested value, PS 1, RAMP in this order;
\* between PS 1 and RAMP lie only the heater wait's sleeps and polls, the
\* last of them a poll; and the wait is left only on a poll that finds the
\* instrument in another state than heating switch.
C5_CommandOrder ==
    /\ []C5_Order
    /\ [][\A c \in Callers :
             (pc[c] = "ps_wait" /\ pc'[c] # "ps_wait" /\ op[c] \in RampOps)
             => (hw.state # 9 /\ pc'[c] \in {"sf_ramp", "rt_ramp"})]_vars

C5_Witness ==
    \E c \in Callers :
        /\ op[c] = "_set_field" /\ persistent_switch /\ pc[c] = "sf_wait"
        /\ log[c] = <<Io("QU?", 0), Io("PERS?", 0), Io("STATE?", 0),
                      Io("PAUSE", 0), Io("CONF:FIELD:TARG", value[c]),
                      Io("PS?", 0), Io("PS", 1), Io("sleep", 5),
                      Io("STATE?", 0), Io("sleep", 3), Io("STATE?", 0),
                      Io("RAMP", 0), Io("sleep", 5)>>

\* C6: with the quench flag read clear, the persistent-mode rule not
\* blocking and a ramping state other than ramping (code 1),
\* _can_start_ramping returns True exactly for holding (2), paused (3) and
\* at zero current (8), and never asks for the heater flag.
C6_RestingStates ==
    \A c \in Callers :
        (/\ AtReturn(c) /\ rd[c].q = 0
         /\ ~(persistent_switch /\ rd[c].p = 1)
         /\ rd[c].s \in 2..10)
        => (ret[c] = (rd[c].s \in {2, 3, 8}) /\ rd[c].h = 0 - 1)

C6_Witness ==
    \E c \in Callers :
        /\ AtReturn(c) /\ rd[c].q = 0 /\ persistent_switch /\ rd[c].p = 0
        /\ rd[c].s = 8 /\ ret[c] /\ hw.heater = 0

\* C7: with the quench flag read clear, the persistent-mode rule not
\* blocking and the ramping state read as ramping (code 1),
\* _can_start_ramping returns True exactly when there is no persistent
\* switch or the heater flag is read as enabled.
C7_WhileRamping ==
    \A c \in Callers :
        (/\ AtReturn(c) /\ rd[c].q = 0
         /\ ~(persistent_switch /\ rd[c].p = 1)
         /\ rd[c].s = 1)
        => (ret[c] = (~persistent_switch \/ rd[c].h = 1))

C7_Witness ==
    \E c \in Callers :
        /\ AtReturn(c) /\ rd[c].q = 0 /\ persistent_switch /\ rd[c].p = 0
        /\ rd[c].s = 1 /\ rd[c].h = 0 /\ ~ret[c]

\* C8: against the same answers, the log of _set_field (caller 1) and the
\* log of _ramp_to (caller 2) agree entry by entry up to and including
\* RAMP, and _ramp_to logs nothing after its RAMP.
C8_SameUpToRamp ==
    LET a == UpToRamp(log[1])
        b == UpToRamp(log[2])
    IN /\ IsPrefix(a, b) \/ IsPrefix(b, a)
       /\ log[2] = b
       /\ (pc[1] = "idle" /\ pc[2] = "idle") =>
             (a = b /\ result[1] = "ok" /\ result[2] = "ok")

C8_Witness ==
    /\ pc[1] = "idle" /\ pc[2] = "idle"
    /\ Has(log[2], "PS") /\ Has(log[2], "RAMP")
    /\ Len(log[1]) > Len(log[2]) + 3
    /\ log[1][Len(log[1])] = Io("PAUSE", 0)

\* C9: in _set_field, a settle re-read that finds holding (code 2) is
\* followed by one PAUSE, the only PAUSE after RAMP, and the call returns
\* without an error.
C9_HoldingIsPaused ==
    [][\A c \in Callers :
          /\ (pc[c] = "sf_settle" /\ Stepped(c) /\ hw.state = 2)
             => (pc'[c] = "sf_hold" /\ result'[c] = "none")
          /\ (pc[c] = "sf_hold" /\ Stepped(c))
             => /\ pc'[c] = "idle" /\ result'[c] = "ok"
                /\ Len(SelectSeq(AfterRamp(log'[c]), IsPause)) = 1
                /\ Writes(AfterRamp(log'[c])) = <<Io("PAUSE", 0)>>]_vars

C9_Witness ==
    \E c \in Callers :
        /\ op[c] = "_set_field" /\ pc[c] = "idle" /\ result[c] = "ok"
        /\ AfterRamp(log[c]) =
              <<Io("sleep", 5), Io("STATE?", 0), Io("sleep", 3),
                Io("STATE?", 0), Io("sleep", 3), Io("STATE?", 0),
                Io("sleep", 20), Io("STATE?", 0), Io("PAUSE", 0)>>

\* C10: in _set_field, a settle re-read that finds any state other than
\* holding ends the call without an error and without any command after
\* RAMP.
C10_AbnormalEndSendsNothing ==
    [][\A c \in Callers :
          (pc[c] = "sf_settle" /\ Stepped(c) /\ hw.state # 2)
          => /\ pc'[c] = "idle" /\ result'[c] = "ok"
             /\ Writes(AfterRamp(log'[c])) = <<>>
             /\ hw' = hw]_vars

C10_Witness ==
    \E c \in Callers :
        /\ op[c] = "_set_field" /\ pc[c] = "idle" /\ result[c] = "ok"
        /\ hw.state = 7
        /\ AfterRamp(log[c]) =
              <<Io("sleep", 5), Io("STATE?", 0), Io("sleep", 3),
                Io("STATE?", 0), Io("sleep", 20), Io("STATE?", 0)>>

\* --------------------------------------------------- the heater alone

\* A magnet with a persistent switch whose heater is off, and a client that
\* only sets persistent_switch_heater_enabled: the heater flag is 1 only
\* after an enabling call, and until the next disabling one.
InitHeater ==
    /\ Init
    /\ persistent_switch
    /\ hw.heater = 0

NextHeater ==
    \/ \E c \in Serial :
          \/ persistent_switch_heater_enabled_set(c)
          \/ set_persistent_switch_heater_write(c)
          \/ set_persistent_switch_heater_wait(c)
    \/ HwChange

SpecHeater == InitHeater /\ [][NextHeater]_vars

HeaterOp(c) == op[c] = "_set_persistent_switch_heater"

\* the log of a heater call that has written b: the command, the half second,
\* then polls with 0.3 s after each poll that saw the transition state
HeaterLogShape(l, b) ==
    /\ Len(l) >= 2
    /\ l[1] = Io("PS", b) /\ l[2] = Io("sleep", 5)
    /\ \A k \in 3..Len(l) :
          /\ l[k] \in {Io("STATE?", 0), Io("sleep", 3)}
          /\ l[k] = Io("sleep", 3) => l[k - 1] = Io("STATE?", 0)
          /\ (l[k] = Io("STATE?", 0) /\ k > 3) => l[k - 1] = Io("sleep", 3)

\* C11 as stated: an enabling call made while the heater flag is already 1
\* returns at once, writes no PS 1 and does not wait.
C11_SecondEnableIsNoOp ==
    [][\A c \in Callers :
          (/\ pc[c] = "ps_write" /\ HeaterOp(c) /\ value[c] = 1
           /\ hw.heater = 1 /\ Stepped(c))
          => (pc'[c] = "idle" /\ ~Has(log'[c], "PS")
              /\ ~Has(log'[c], "sleep"))]_vars

\* C11, amended: an enabling call writes PS 1 and sleeps half a second
\* whether the heater flag is 0 or 1, leaves the flag at 1, and returns
\* only after at least one poll of the ramping state.
C11_EnableAlwaysWrites ==
    /\ [](\A c \in Callers :
            (HeaterOp(c) /\ value[c] = 1 /\ pc[c] = "idle" /\ result[c] = "ok")
            => (HeaterLogShape(log[c], 1) /\ Has(log[c], "STATE?")))
    /\ [][\A c \in Callers :
             (pc[c] = "ps_write" /\ HeaterOp(c) /\ value[c] = 1 /\ Stepped(c))
             => /\ pc'[c] = "ps_wait"
                /\ log'[c] = <<Io("PS", 1), Io("sleep", 5)>>
                /\ hw'.heater = 1]_vars

\* an enabling call has written PS 1, slept, polled once and returned, and
\* the heater flag is 1
C11_Witness ==
    \E c \in Callers :
        /\ HeaterOp(c) /\ value[c] = 1 /\ pc[c] = "idle" /\ result[c] = "ok"
        /\ log[c] = <<Io("PS", 1), Io("sleep", 5), Io("STATE?", 0)>>
        /\ hw.heater = 1

\* C12: persistent_switch_heater_enabled.set(b) writes PS 1 for True and PS 0
\* for False first, then only sleeps and polls the ramping state, and leaves
\* its wait only on a poll that finds another state than heating switch
\* (enabling) or cooling switch (disabling).
C12_HeaterThenWait ==
    /\ [](\A c \in Callers :
            (HeaterOp(c) /\ Len(log[c]) > 0)
            => /\ HeaterLogShape(log[c], value[c])
               /\ (pc[c] = "idle" /\ result[c] = "ok")
                  => log[c][Len(log[c])] = Io("STATE?", 0))
    /\ [][\A c \in Callers :
             (pc[c] = "ps_wait" /\ HeaterOp(c) /\ Stepped(c))
             => IF hw.state = (IF value[c] = 1 THEN 9 ELSE 10)
                THEN pc'[c] = "ps_wait" /\ result'[c] = "none"
                ELSE pc'[c] = "idle" /\ result'[c] = "ok"]_vars

\* ------------------------------------------------- two callers at once

\* Two threads use the same driver object and instrument, each calling
\* ramp_to; nothing in the driver makes one wait for the other (no lock in
\* lines 147-160). The instrument is at rest and changes only by the
\* commands it gets.
InitConc ==
    /\ Init
    /\ hw.quench = 0 /\ hw.pers = 0 /\ hw.state \in {2, 3}

NextConc ==
    \E c \in Callers :
       \/ ramp_to(c)
       \/ can_is_quenched(c)
       \/ can_in_persistent_mode(c)
       \/ can_ramping_state(c)
       \/ can_heater_enabled(c)
       \/ ramp_to_if(c)
       \/ ramp_to_pause(c)
       \/ ramp_to_target(c)
       \/ ramp_to_heater(c)
       \/ ramp_to_ramp(c)
       \/ set_persistent_switch_heater_write(c)
       \/ set_persistent_switch_heater_wait(c)

SpecConc == InitConc /\ [][NextConc]_vars

\* caller c has sent PAUSE of a ramp and not yet its RAMP
Between(c) ==
    /\ op[c] \in RampOps
    /\ pc[c] # "idle"
    /\ Has(log[c], "PAUSE")
    /\ ~Has(log[c], "RAMP")

\* C13: two ramp requests of concurrent callers never interleave: while one
\* caller is between its PAUSE and its RAMP no write of the other caller
\* reaches the instrument, and at a caller's RAMP the instrument's target is
\* the one that caller set.
C13_NoInterleaving ==
    /\ [][\A c \in Callers : \A d \in Callers \ {c} :
             Between(c) => Writes(log'[d]) = Writes(log[d])]_vars
    /\ [][\A c \in Callers :
             pc[c] = "rt_ramp" /\ pc'[c] # "rt_ramp" => hw.target = value[c]]_vars

\* ------------------------------------------------------- the ramp rate

\* line 39: vals=Numbers(), no minimum and no maximum
ramp_rate_vals(v) == v \in Int

RECURSIVE Shift(_, _)
\* n followed by as many zeros as d has decimal digits
Shift(n, d) == IF d < 10 THEN n * 10 ELSE Shift(n * 10, d \div 10)

\* line 168: '{}{}'.format(rate, self._field_rating): the digits of the rate
\* directly followed by the digits of the field rating, read as one number
rate_text(rate) == Shift(rate, _field_rating) + _field_rating

\* lines 35-39: ramp_rate.set(r): validate against vals, then _set_ramp_rate(r)
ramp_rate_set(c) ==
    /\ pc[c] = "idle"
    /\ \E r \in Rates :
          /\ Begin(c, "_set_ramp_rate", r)
          /\ IF ramp_rate_vals(r)
             THEN /\ pc' = [pc EXCEPT ![c] = "rr_write"]
                  /\ result' = [result EXCEPT ![c] = "none"]
             ELSE /\ pc' = pc
                  /\ result' = [result EXCEPT ![c] = "OutOfRange"]

\* lines 167-170: write 'CONF:RAMP:RATE:FIELD 1,<rate><field rating>'. The
\* instrument takes the one number after the segment as the rate, or
\* rejects a command that lacks its third argument and keeps its rate.
_set_ramp_rate(c) ==
    /\ pc[c] = "rr_write"
    /\ Logged(c, <<Io("CONF:RAMP:RATE:FIELD", rate_text(value[c]))>>)
    /\ rate_sent' = value[c]
    /\ hw_rate' \in {rate_text(value[c]), hw_rate}
    /\ Return(c)
    /\ UNCHANGED <<config, op, value, current_ramp_limit, got, hw, script, nq,
                   polls, rd, ret, qdac>>

\* lines 35-39: ramp_rate.get()
ramp_rate_get(c) ==
    /\ pc[c] = "idle"
    /\ Begin(c, "_get_ramp_rate", 0)
    /\ pc' = [pc EXCEPT ![c] = "rr_ask"]
    /\ result' = [result EXCEPT ![c] = "none"]

\* lines 162-165: ask 'RAMP:RATE:FIELD:1?', split the reply at the commas and
\* return the first field
_get_ramp_rate(c) ==
    /\ pc[c] = "rr_ask"
    /\ Logged(c, <<Io("RAMP:RATE:FIELD:1?", 0)>>)
    /\ \E upper \in Rates :
          LET results == <<hw_rate, upper>>
          IN  got' = [got EXCEPT ![c] = results[1]]
    /\ Return(c)
    /\ UNCHANGED <<config, op, value, current_ramp_limit, hw_rate, rate_sent, hw,
                   script, nq, polls, rd, ret, qdac>>

\* an instrument at rest without quench; only the ramp rate is used
InitRate ==
    /\ Init
    /\ hw = [quench |-> 0, pers |-> 0, heater |-> 0, state |-> 2, target |-> 0]

NextRate ==
    \E c \in Serial :
       \/ ramp_rate_set(c)
       \/ _set_ramp_rate(c)
       \/ ramp_rate_get(c)
       \/ _get_ramp_rate(c)

SpecRate == InitRate /\ [][NextRate]_vars

\* the largest field ramp rate the configured current ramp limit allows
field_ramp_limit == coil_constant * current_ramp_limit

\* C14: a ramp rate above the configured limit is rejected with an
\* out-of-range error and no CONF:RAMP:RATE:FIELD is written for it.
C14_RateOutOfRangeSendsNothing ==
    \A c \in Serial :
       op[c] = "_set_ramp_rate" /\ value[c] > field_ramp_limit
          => /\ ~Has(log[c], "CONF:RAMP:RATE:FIELD")
             /\ pc[c] = "idle" => result[c] = "OutOfRange"

\* C15: reading the ramp rate after setting it to r yields r.
C15_RateRoundTrip ==
    \A c \in Serial :
       op[c] = "_get_ramp_rate" /\ pc[c] = "idle" /\ rate_sent >= 0
          => got[c] = rate_sent

\* ------------------------------------------------------ the blocking waits

\* The blocking operations on an instrument without quench: field.set and
\* the heater's set. A thread inside a call keeps running: its next step is
\* taken if it stays possible.
InitWait ==
    /\ Init
    /\ hw.quench = 0 /\ hw.pers = 0 /\ hw.state \in {2, 3}

NextWait ==
    \/ \E c \in Serial :
          \/ field_set(c)
          \/ persistent_switch_heater_enabled_set(c)
          \/ can_is_quenched(c)
          \/ can_in_persistent_mode(c)
          \/ can_ramping_state(c)
          \/ can_heater_enabled(c)
          \/ set_field_if(c)
          \/ set_field_pause(c)
          \/ set_field_target(c)
          \/ set_field_heater(c)
          \/ set_field_ramp(c)
          \/ set_field_wait(c)
          \/ set_field_settle(c)
          \/ set_field_hold(c)
          \/ set_persistent_switch_heater_write(c)
          \/ set_persistent_switch_heater_wait(c)
    \/ HwChange

Running == \E c \in Serial : Body(c)

SpecWait == InitWait /\ [][NextWait]_vars /\ WF_vars(Running)

Waits == {"sf_wait", "ps_wait"}

\* the ramping state the wait of caller c is to see end: ramping for the
\* monitor, heating switch for an enabling and cooling switch for a
\* disabling call of the heater
Awaited(c) ==
    IF pc[c] = "sf_wait" THEN 1
    ELSE IF HeaterOp(c) /\ value[c] = 0 THEN 10 ELSE 9

\* C16: the waits have no timeout. A poll that sees the awaited state
\* (ramping for the monitor, heating switch when enabling the heater,
\* cooling switch when disabling it) keeps the call in its loop, without
\* result and without a write, however many polls came before; a poll that
\* sees another state ends the loop; and a waiting call does leave its loop
\* unless the instrument shows the awaited state again.
C16_NoTimeout ==
    /\ [][\A c \in Serial :
             pc[c] \in Waits /\ Stepped(c)
                => IF hw.state = Awaited(c)
                   THEN /\ pc'[c] = pc[c]
                        /\ result'[c] = "none"
                        /\ Writes(log'[c]) = Writes(log[c])
                   ELSE pc'[c] # pc[c]]_vars
    /\ \A c \in Serial :
          (pc[c] \in Waits) ~> (pc[c] \notin Waits \/ hw.state = Awaited(c))

\* -------------------------------------------------- the heater of a ramp

\* C17: in a ramp request PS 1 is sent exactly when there is a persistent
\* switch and the heater, asked after the target was set, is read disabled:
\* read enabled, the request goes on to RAMP without heater command or wait;
\* without a switch it sends no PS, no PS? and no PERS?.
C17_HeaterEnsured ==
    /\ [](\A c \in Serial :
             op[c] \in RampOps
                => /\ ~persistent_switch
                         => /\ ~Has(log[c], "PS")
                            /\ ~Has(log[c], "PS?")
                            /\ ~Has(log[c], "PERS?")
                   /\ \A i \in 1..Len(log[c]) :
                         log[c][i].cmd = "PS"
                            => /\ persistent_switch
                               /\ log[c][i].arg = 1
                               /\ i > 2
                               /\ log[c][i - 1].cmd = "PS?"
                               /\ log[c][i - 2].cmd = "CONF:FIELD:TARG")
    /\ [][\A c \in Serial :
             pc[c] \in {"sf_ps", "rt_ps"} /\ Stepped(c)
                => /\ persistent_switch
                   /\ log'[c] = Append(log[c], Io("PS?", 0))
                   /\ IF hw.heater = 0
                      THEN pc'[c] = "ps_write"
                      ELSE pc'[c] = (IF op[c] = "_set_field" THEN "sf_ramp"
                                     ELSE "rt_ramp")]_vars
    /\ [][\A c \in Serial :
             pc[c] = "ps_write" /\ op[c] \in RampOps /\ Stepped(c)
                => log'[c] = log[c] \o <<Io("PS", 1), Io("sleep", 5)>>]_vars
    /\ [][\A c \in Serial :
             pc[c] \in {"sf_targ", "rt_targ"} /\ Stepped(c)
                => pc'[c] = (IF persistent_switch
                             THEN (IF op[c] = "_set_field" THEN "sf_ps" ELSE "rt_ps")
                             ELSE (IF op[c] = "_set_field" THEN "sf_ramp"
                                   ELSE "rt_ramp"))]_vars

\* a blocking ramp that found the heater disabled, enabled it and ramped
C17_Witness ==
    \E c \in Serial :
       /\ op[c] = "_set_field"
       /\ persistent_switch
       /\ Has(log[c], "PS")
       /\ Has(log[c], "RAMP")

\* ------------------------------------------------- the moment of RAMP

\* caller c writes RAMP in this step
Ramps(c) == pc[c] \in {"sf_ramp", "rt_ramp"} /\ Stepped(c)

\* C18: RAMP is never written while the instrument's quench flag is set,
\* also when the quench comes after the gate was passed.
C18_NoRampWhileQuenched ==
    [][\A c \in Serial : Ramps(c) => hw.quench = 0]_vars

\* C19: with a persistent switch, at the moment RAMP is written the
\* instrument's heater is enabled and, after the request enabled the heater
\* itself, the instrument is not heating the switch.
C19_RampWithWarmSwitch ==
    [][\A c \in Serial :
          Ramps(c) /\ persistent_switch
             => /\ hw.heater = 1
                /\ Has(log[c], "PS") => hw.state # 9]_vars

\* ------------------------------------------------------------- the QDac

\* a QDac next to a magnet driver that is left alone
InitQDac ==
    /\ Init
    /\ coil_constant = 1 /\ current_rating = 1 /\ persistent_switch
    /\ hw = [quench |-> 0, pers |-> 0, heater |-> 0, state |-> 2, target |-> 0]

NextQDac ==
    \/ read_state_call
    \/ read_state
    \/ get_status
    \/ _get_status
    \/ chan_set
    \/ vrange_set
    \/ irange_set
    \/ max_status_age_set
    \/ Tick

SpecQDac == InitQDac /\ [][NextQDac]_vars

\* the cached table exists and is younger than max_status_age
Young ==
    /\ qdac.has
    /\ qdac.max_status_age # 0
    /\ qdac.now - qdac._status_ts < qdac.max_status_age

\* C20: read_state with valid arguments answers from the cached table
\* without asking the instrument exactly when a table exists that is
\* younger than max_status_age; otherwise (none fetched yet, too old, or
\* max_status_age = 0) it goes on to ask for the status and, the reply
\* being well formed, stores it with the time of then and answers from it.
C20_ReadStateFresh ==
    /\ [][qdac.pc = "rs_age" /\ qdac'.pc # "rs_age"
             => IF Young
                THEN /\ qdac'.pc = "idle"
                     /\ ~qdac'.asked
                     /\ qdac'._status = qdac._status
                     /\ qdac'._status_ts = qdac._status_ts
                     /\ qdac'.chans = qdac._status
                     /\ qdac'.out = [kind |-> "value",
                                     val |-> Entry(qdac._status,
                                                   qdac.chan)[qdac.param]]
                ELSE /\ qdac'.pc = "gs_ask"
                     /\ qdac'.out = NoOut]_vars
    /\ [][qdac.pc = "gs_ask" /\ qdac.fn = "read_state" /\ qdac'.pc = "idle"
             => /\ qdac'.asked
                /\ qdac'.reply = "ok"
                      => /\ qdac'.has
                         /\ qdac'._status = qdac.table
                         /\ qdac'._status_ts = qdac.now
                         /\ qdac'.chans = qdac.table
                         /\ qdac'.out =
                               [kind |-> "value",
                                val |-> Entry(qdac.table,
                                              qdac.chan)[qdac.param]]]_vars

====
